---- MODULE Spec2Model ----
(***************************************************************************)
(* Model of the swimtracker worker: the CrowdMonitor scrape connector and  *)
(* the D1 occupancy table (scraper.ts), the JSON read API (api.ts) and the *)
(* cron/fetch entry points (index.ts).                                     *)
(*                                                                         *)
(* Conventions of the model                                                *)
(*  - JavaScript strings that the code parses are sequences of one-        *)
(*    character strings (<<"6","7","2">>).                                  *)
(*  - A JavaScript number is an integer or NaN; NaN is an integer below    *)
(*    every value the model computes, told apart by IsNaN alone.           *)
(*  - occupancy_percent is a two-decimal number; the model holds it as its *)
(*    count of hundredths (25.00 is 2500), so round(x)/100 is round(x).    *)
(*  - Instants are whole seconds since an epoch whose day 0 is a midnight. *)
(*  - A timestamp text is <<day, separator code, second of day>>: its      *)
(*    fixed-width fields compare as the numbers they print, the separator  *)
(*    as its character code.                                               *)
(***************************************************************************)
EXTENDS Integers, Sequences, FiniteSets, TLC

VARIABLES
    now,         \* the wall clock, in seconds
    occupancy,   \* the D1 table `occupancy`: its rows in insertion order
    tick,        \* the scheduled() invocation: its position and what it did
    ws,          \* the WebSocket and the promise of the running scrape call
    resp,        \* the fetch() invocation that just ran: its request, whether
                 \* the database answered, and what handleRequest gave back
    cEntry,      \* SpecCalc: the upstream entry handed to the map callback
    cRecord,     \* SpecCalc: the record the callback returned ("none" before)
    qParam,      \* SpecHours: the raw `hours` query parameter
    qBound,      \* SpecHours: the value bound to the range query ("none" before)
    calls,       \* SpecStore: the scrapeAndStore calls in progress, by caller
    last         \* SpecStore: the statement that ran last against the table

workerVars == <<now, occupancy, tick, ws, resp>>
calcVars == <<cEntry, cRecord>>
hourVars == <<qParam, qBound>>
storeVars == <<calls, last>>
pureVars == <<cEntry, cRecord, qParam, qBound, calls, last>>
vars == <<now, occupancy, tick, ws, resp, cEntry, cRecord, qParam, qBound, calls, last>>

----------------------------------------------------------------------------
(* JavaScript values and coercions                                         *)

NaN == 0 - 2^30
\* A JSON value or a query parameter: a number n, a string the code parses
\* (its characters s), a string the code only compares (its text t), null
\* or undefined (absent).  Every value has every field.
Null == [k |-> "null", n |-> 0, s |-> <<>>, t |-> ""]
Undefined == [k |-> "undefined", n |-> 0, s |-> <<>>, t |-> ""]
JsNum(n) == [k |-> "number", n |-> n, s |-> <<>>, t |-> ""]
JsStr(s) == [k |-> "string", n |-> 0, s |-> s, t |-> ""]
JsText(t) == [k |-> "string", n |-> 0, s |-> <<>>, t |-> t]

Digits == {"0", "1", "2", "3", "4", "5", "6", "7", "8", "9"}
DigitVal == [c \in Digits |->
    CASE c = "0" -> 0 [] c = "1" -> 1 [] c = "2" -> 2 [] c = "3" -> 3
      [] c = "4" -> 4 [] c = "5" -> 5 [] c = "6" -> 6 [] c = "7" -> 7
      [] c = "8" -> 8 [] c = "9" -> 9]

IsNaN(x) == x = NaN

\* StrWhiteSpace skipped by parseInt and trimmed by Number().
IsSpace(c) == c = " "

RECURSIVE SkipSpaces(_)
SkipSpaces(s) ==
    IF s # <<>> /\ IsSpace(Head(s)) THEN SkipSpaces(Tail(s)) ELSE s

RECURSIVE DropTrailingSpaces(_)
DropTrailingSpaces(s) ==
    IF s # <<>> /\ IsSpace(s[Len(s)])
    THEN DropTrailingSpaces(SubSeq(s, 1, Len(s) - 1))
    ELSE s

\* The longest prefix of s made of decimal digits.
RECURSIVE DigitPrefix(_)
DigitPrefix(s) ==
    IF s # <<>> /\ Head(s) \in Digits
    THEN <<Head(s)>> \o DigitPrefix(Tail(s))
    ELSE <<>>

\* The value of a non-empty digit string, most significant digit first.
RECURSIVE DigitsValue(_)
DigitsValue(s) ==
    IF s = <<>> THEN 0
    ELSE 10 * DigitsValue(SubSeq(s, 1, Len(s) - 1)) + DigitVal[s[Len(s)]]

\* parseInt(s, 10): leading white space, an optional sign, then the longest
\* run of digits; NaN when that run is empty.  Whatever follows is ignored.
ParseInt10(s) ==
    LET t == SkipSpaces(s)
        neg == t # <<>> /\ Head(t) = "-"
        signed == t # <<>> /\ Head(t) \in {"-", "+"}
        body == IF signed THEN Tail(t) ELSE t
        ds == DigitPrefix(body)
    IN  IF ds = <<>> THEN NaN
        ELSE IF neg THEN 0 - DigitsValue(ds) ELSE DigitsValue(ds)

\* Number(s) of a string: trimmed; empty is 0; a signed run of digits that
\* covers the whole string is its value; anything else is NaN.
StringToNumber(s) ==
    LET t == DropTrailingSpaces(SkipSpaces(s))
        neg == t # <<>> /\ Head(t) = "-"
        signed == t # <<>> /\ Head(t) \in {"-", "+"}
        body == IF signed THEN Tail(t) ELSE t
        ds == DigitPrefix(body)
    IN  IF t = <<>> THEN 0
        ELSE IF ds = <<>> \/ ds # body THEN NaN
        ELSE IF neg THEN 0 - DigitsValue(ds) ELSE DigitsValue(ds)

\* Number(v) of a JSON value or a missing field.
ToNumber(v) ==
    CASE v.k = "number" -> v.n
      [] v.k = "string" -> StringToNumber(v.s)
      [] v.k = "null" -> 0
      [] OTHER -> NaN

\* Comparisons with NaN are false.
JsGt(a, b) == ~IsNaN(a) /\ ~IsNaN(b) /\ a > b
JsLe(a, b) == ~IsNaN(a) /\ ~IsNaN(b) /\ a <= b
JsLt(a, b) == ~IsNaN(a) /\ ~IsNaN(b) /\ a < b

\* Math.min / Math.max: NaN when either argument is NaN.
MathMin(a, b) == IF IsNaN(a) \/ IsNaN(b) THEN NaN ELSE IF a < b THEN a ELSE b
MathMax(a, b) == IF IsNaN(a) \/ IsNaN(b) THEN NaN ELSE IF a > b THEN a ELSE b

\* Math.round(num / den) for den > 0: the nearest integer, halves upwards.
RoundDiv(num, den) == (2 * num + den) \div (2 * den)

\* Math.floor(num / den) for den > 0.
FloorDiv(num, den) == num \div den

----------------------------------------------------------------------------
(* scraper: the pool catalog and the derived fields                        *)

POOLS == [id \in {"SSD-4", "SSD-7", "SSD-10", "SSD-6", "fb012", "BADI-1"} |->
    CASE id = "SSD-4" -> "Hallenbad City"
      [] id = "SSD-7" -> "Hallenbad Oerlikon"
      [] id = "SSD-10" -> "Utoquai"
      [] id = "SSD-6" -> "Leimbach"
      [] id = "fb012" -> "Heuried"
      [] id = "BADI-1" -> "Enge"]

TRACKED_POOL_IDS == DOMAIN POOLS

MaxLevel == 4
LevelWidth == 25

\* Mutant: the level taken from the rounded two-decimal percentage.
calculateOccupancyLevel_fromPercent(currentFill, maxCapacity) ==
    IF JsLe(maxCapacity, 0) \/ JsLt(currentFill, 0) THEN 0
    ELSE IF IsNaN(currentFill) \/ IsNaN(maxCapacity) THEN NaN
    ELSE MathMin(MaxLevel,
            FloorDiv(RoundDiv(currentFill * 10000, maxCapacity), LevelWidth * 100) + 1)

\* Mutant: the guard tests the fill alone, so a capacity <= 0 is divided by
\* (x / 0 is Infinity, 0 / 0 is NaN).
calculateOccupancyLevel_fillGuardOnly(currentFill, maxCapacity) ==
    IF JsLt(currentFill, 0) THEN 0
    ELSE IF IsNaN(currentFill) \/ IsNaN(maxCapacity) THEN NaN
    ELSE IF maxCapacity = 0 THEN (IF currentFill = 0 THEN NaN ELSE MaxLevel)
    ELSE IF maxCapacity < 0
         THEN MathMin(MaxLevel,
                FloorDiv(0 - currentFill * 100, (0 - maxCapacity) * LevelWidth) + 1)
    ELSE MathMin(MaxLevel, FloorDiv(currentFill * 100, maxCapacity * LevelWidth) + 1)

\* Mutant: the level without its cap.
calculateOccupancyLevel_uncapped(currentFill, maxCapacity) ==
    IF JsLe(maxCapacity, 0) \/ JsLt(currentFill, 0) THEN 0
    ELSE IF IsNaN(currentFill) \/ IsNaN(maxCapacity) THEN NaN
    ELSE FloorDiv(currentFill * 100, maxCapacity * LevelWidth) + 1

calculateOccupancyLevel(currentFill, maxCapacity) ==
    IF JsLe(maxCapacity, 0) \/ JsLt(currentFill, 0) THEN 0
    ELSE IF IsNaN(currentFill) \/ IsNaN(maxCapacity) THEN NaN
    ELSE MathMin(MaxLevel, FloorDiv(currentFill * 100, maxCapacity * LevelWidth) + 1)

\* occupancy_percent in hundredths: Math.round(fill / capacity * 10000) / 100.
occupancyPercent(currentFill, maxCapacity) ==
    IF JsGt(maxCapacity, 0)
    THEN IF IsNaN(currentFill) THEN NaN
         ELSE RoundDiv(currentFill * 10000, maxCapacity)
    ELSE 0

\* Mutant: the record is named by its id, not by the catalog.
toRecord_nameIsId(entry, timestamp) ==
    LET currentFill == ToNumber(entry.currentfill)
        maxCapacity == ToNumber(entry.maxspace)
    IN  [timestamp |-> timestamp,
         pool_id |-> entry.uid,
         pool_name |-> entry.uid,
         current_fill |-> currentFill,
         max_capacity |-> maxCapacity,
         occupancy_percent |-> occupancyPercent(currentFill, maxCapacity),
         occupancy_level |-> calculateOccupancyLevel(currentFill, maxCapacity)]

\* The .map callback of fetchFromWebSocket: one upstream entry to one record.
toRecord(entry, timestamp) ==
    LET currentFill == ToNumber(entry.currentfill)
        maxCapacity == ToNumber(entry.maxspace)
    IN  [timestamp |-> timestamp,
         pool_id |-> entry.uid,
         pool_name |-> IF entry.uid \in DOMAIN POOLS THEN POOLS[entry.uid] ELSE entry.uid,
         current_fill |-> currentFill,
         max_capacity |-> maxCapacity,
         occupancy_percent |-> occupancyPercent(currentFill, maxCapacity),
         occupancy_level |-> calculateOccupancyLevel(currentFill, maxCapacity)]

----------------------------------------------------------------------------
(* Time and timestamp texts                                                *)

SecondsPerDay == 24 * 3600
Day(d) == d * SecondsPerDay

\* The character codes of 'T' and ' ', the 11th character of the two formats.
CodeT == 84
CodeSpace == 32

\* new Date().toISOString(): 'YYYY-MM-DDTHH:MM:SS.mmmZ'.
toISOString(t) == <<t \div SecondsPerDay, CodeT, t % SecondsPerDay>>

\* SQLite datetime('now', modifier): 'YYYY-MM-DD HH:MM:SS' of now + offset.
datetime(t, offsetSeconds) ==
    <<(t + offsetSeconds) \div SecondsPerDay, CodeSpace,
      (t + offsetSeconds) % SecondsPerDay>>

\* SQLite's comparison of two TEXT values: byte by byte, left to right.
TextLess(a, b) ==
    \/ a[1] < b[1]
    \/ a[1] = b[1] /\ a[2] < b[2]
    \/ a[1] = b[1] /\ a[2] = b[2] /\ a[3] < b[3]

\* Mutant: the comparison of the range query turned around.
TextGeq_reversed(a, b) == TextLess(a, b)

TextGeq(a, b) == ~TextLess(a, b)

\* The instant a stored ISO text was captured at.
InstantOf(ts) == ts[1] * SecondsPerDay + ts[3]

----------------------------------------------------------------------------
(* scraper: fetchFromWebSocket                                             *)

\* Mutant: no entry is filtered out.
isTracked_all(entry) == TRUE

\* The .filter callback: TRACKED_POOL_IDS.has(entry.uid).
isTracked(entry) == entry.uid \in TRACKED_POOL_IDS

\* data.filter(...).map(...) over the parsed array.
RECURSIVE toRecords(_, _)
toRecords(data, timestamp) ==
    IF data = <<>> THEN <<>>
    ELSE IF isTracked(Head(data))
         THEN <<toRecord(Head(data), timestamp)>> \o toRecords(Tail(data), timestamp)
         ELSE toRecords(Tail(data), timestamp)

NoWs == [open |-> FALSE]

\* The socket after ws.accept() and the promise executor: both timers set.
NewWs ==
    [open |-> TRUE,
     promise |-> "pending",   \* pending | resolved | rejected
     value |-> <<>>,          \* the records it resolved with
     data |-> <<>>,           \* the parsed array those records were made from
     at |-> 0,                \* the instant `timestamp` was taken at
     error |-> "none",        \* the error it rejected with
     timeoutArmed |-> TRUE,   \* the 10 s timer is set and not cleared
     timedOut |-> FALSE,      \* the 10 s timer has fired
     sendArmed |-> TRUE,      \* the 500 ms timer is set
     sends |-> 0,             \* ws.send('all') calls on the open socket
     sendsClosed |-> 0,       \* ws.send('all') calls after ws.close()
     closeCalls |-> 0,        \* ws.close() calls
     msgs |-> 0,              \* message events delivered
     untracked |-> 0,         \* entries the filter dropped from the array it resolved with
     errored |-> FALSE]       \* the error event was delivered

\* Mutant: a later resolve replaces the settlement.
resolve_overwrites(w, v) == [w EXCEPT !.promise = "resolved", !.value = v]

\* resolve(v) / reject(e): only the first settlement of a promise counts.
resolve(w, v) ==
    IF w.promise = "pending" THEN [w EXCEPT !.promise = "resolved", !.value = v] ELSE w

\* Mutant: a later reject replaces the settlement.
reject_overwrites(w, e) == [w EXCEPT !.promise = "rejected", !.error = e]

reject(w, e) ==
    IF w.promise = "pending" THEN [w EXCEPT !.promise = "rejected", !.error = e] ELSE w

close(w) == [w EXCEPT !.closeCalls = @ + 1]

clearTimeout(w) == [w EXCEPT !.timeoutArmed = FALSE]

\* The 10 s timer's callback.
onTimeout(w) ==
    reject(close([w EXCEPT !.timeoutArmed = FALSE, !.timedOut = TRUE]), "timeout")

\* The message listener.  m.kind is "array" (JSON text of an array of entries),
\* "unparseable" (JSON.parse throws) or "notArray" (data.filter throws).
onMessage(w, m, t) ==
    LET w1 == clearTimeout([w EXCEPT !.msgs = @ + 1])
    IN  IF m.kind = "array"
        THEN LET records == toRecords(m.entries, toISOString(t))
                 w2 == IF w1.promise = "pending"
                       THEN [w1 EXCEPT !.untracked = Len(m.entries) - Len(records),
                                       !.data = m.entries, !.at = t]
                       ELSE w1
             IN  resolve(close(w2), records)
        ELSE reject(close(w1), "parse")

\* The error listener.
onError(w) == reject(clearTimeout([w EXCEPT !.errored = TRUE]), "channel")

\* The 500 ms timer's callback: ws.send('all').
onSendTimer(w) ==
    IF w.closeCalls = 0
    THEN [w EXCEPT !.sendArmed = FALSE, !.sends = @ + 1]
    ELSE [w EXCEPT !.sendArmed = FALSE, !.sendsClosed = @ + 1]

----------------------------------------------------------------------------
(* scraper: the statements run against the occupancy table                 *)

RETENTION_DAYS == 90

\* The columns declared NOT NULL hold a value: SQLite stores a NaN that is
\* bound to a statement as NULL, and the INSERT then fails.
NotNull(r) ==
    /\ ~IsNaN(r.current_fill) /\ ~IsNaN(r.max_capacity)
    /\ ~IsNaN(r.occupancy_percent) /\ ~IsNaN(r.occupancy_level)

\* Every statement of the batch satisfies the table's constraints.
batchAccepted(records) == \A i \in 1..Len(records) : NotNull(records[i])

\* Mutant: the first statement of the batch lands alone.
batchInsert_firstRow(table, records) == table \o SubSeq(records, 1, 1)

\* db.batch(INSERT ...): all rows of the batch, in one transaction.
batchInsert(table, records) == table \o records

\* Mutant: the DELETE removes one row at a time (the first that is too old).
cleanupDelete_oneRow(table, t) ==
    LET cutoff == datetime(t, 0 - Day(RETENTION_DAYS))
        old == {i \in 1..Len(table) : TextLess(table[i].timestamp, cutoff)}
    IN  IF old = {} THEN table
        ELSE LET k == CHOOSE i \in old : \A j \in old : i <= j
             IN  SubSeq(table, 1, k - 1) \o SubSeq(table, k + 1, Len(table))

\* DELETE FROM occupancy WHERE timestamp < datetime('now', '-90 days').
cleanupDelete(table, t) ==
    LET cutoff == datetime(t, 0 - Day(RETENTION_DAYS))
    IN  SelectSeq(table, LAMBDA r : ~TextLess(r.timestamp, cutoff))

----------------------------------------------------------------------------
(* api: the queries and the router                                         *)

\* Mutant: the oldest timestamp instead of the newest.
MaxTimestamp_min(table) ==
    CHOOSE m \in {table[i].timestamp : i \in 1..Len(table)} :
        \A i \in 1..Len(table) : ~TextLess(table[i].timestamp, m)

\* SELECT MAX(timestamp) FROM occupancy, for a table that is not empty.
MaxTimestamp(table) ==
    CHOOSE m \in {table[i].timestamp : i \in 1..Len(table)} :
        \A i \in 1..Len(table) : ~TextLess(m, table[i].timestamp)

\* The collation of the catalog's display names (ORDER BY pool_name).
NameRank(n) ==
    CASE n = "Enge" -> 1 [] n = "Hallenbad City" -> 2
      [] n = "Hallenbad Oerlikon" -> 3 [] n = "Heuried" -> 4
      [] n = "Leimbach" -> 5 [] n = "Utoquai" -> 6 [] OTHER -> 7

RECURSIVE InsertByName(_, _)
InsertByName(sorted, r) ==
    IF sorted = <<>> THEN <<r>>
    ELSE IF NameRank(r.pool_name) < NameRank(Head(sorted).pool_name)
         THEN <<r>> \o sorted
         ELSE <<Head(sorted)>> \o InsertByName(Tail(sorted), r)

RECURSIVE OrderByName(_)
OrderByName(rows) ==
    IF rows = <<>> THEN <<>>
    ELSE InsertByName(OrderByName(SubSeq(rows, 1, Len(rows) - 1)), rows[Len(rows)])

RECURSIVE InsertByTimestamp(_, _)
InsertByTimestamp(sorted, r) ==
    IF sorted = <<>> THEN <<r>>
    ELSE IF TextLess(r.timestamp, Head(sorted).timestamp)
         THEN <<r>> \o sorted
         ELSE <<Head(sorted)>> \o InsertByTimestamp(Tail(sorted), r)

RECURSIVE OrderByTimestamp(_)
OrderByTimestamp(rows) ==
    IF rows = <<>> THEN <<>>
    ELSE InsertByTimestamp(OrderByTimestamp(SubSeq(rows, 1, Len(rows) - 1)),
                           rows[Len(rows)])

\* Mutant: the JSON response without the CORS headers.
json_noCors(data, err, status) ==
    [kind |-> "response", status |-> status, cors |-> FALSE, json |-> TRUE,
     body |-> data, error |-> err]

\* json(data, status): a JSON response carrying the CORS headers.
json(data, err, status) ==
    [kind |-> "response", status |-> status, cors |-> TRUE, json |-> TRUE,
     body |-> data, error |-> err]

handleOptions ==
    [kind |-> "response", status |-> 204, cors |-> TRUE, json |-> FALSE,
     body |-> <<>>, error |-> ""]

\* A rejection that leaves the handler: no Response is produced.
Thrown(e) == [kind |-> "exception", error |-> e]

\* The rows of the /api/current query.
selectCurrent(table) ==
    IF table = <<>> THEN <<>>
    ELSE OrderByName(SelectSeq(table,
            LAMBDA r : r.timestamp = MaxTimestamp(table)))

handleCurrent(table, dbOk) ==
    IF dbOk THEN json(selectCurrent(table), "", 200)
    ELSE Thrown("StoreReadFailure")

\* url.searchParams.get(name) || fallback, for a parameter that is Null
\* (absent) or a string.
HoursText(hoursParam) ==
    IF hoursParam = Null \/ hoursParam.s = <<>> THEN <<"2", "4">> ELSE hoursParam.s

PoolFilter(poolParam) ==
    IF poolParam = Null \/ poolParam.t = "" THEN Null ELSE poolParam

HOURS_PER_WEEK == 168
MAX_WEEKS == 4

\* Math.min(Math.max(hours, 1), 168 * 4)
clampedHours(hoursParam) ==
    MathMin(MathMax(ParseInt10(HoursText(hoursParam)), 1), HOURS_PER_WEEK * MAX_WEEKS)

\* The rows of the /api/history query with the values bound to it.  A NaN
\* bound makes the modifier, the cutoff and the comparison NULL: no row.
selectHistory(table, hours, pool, t) ==
    IF IsNaN(hours) THEN <<>>
    ELSE OrderByTimestamp(SelectSeq(table,
            LAMBDA r : /\ TextGeq(r.timestamp, datetime(t, 0 - hours * 3600))
                       /\ (pool = Null \/ r.pool_id = pool.t)))

handleHistory(table, hoursParam, poolParam, t, dbOk) ==
    IF dbOk
    THEN json(selectHistory(table, clampedHours(hoursParam), PoolFilter(poolParam), t),
              "", 200)
    ELSE Thrown("StoreReadFailure")

PoolType(id) == IF id \in {"SSD-4", "SSD-6", "SSD-7"} THEN "indoor" ELSE "outdoor"

\* Object.entries(POOLS): the catalog's keys in the order they are written.
PoolOrder == <<"SSD-4", "SSD-7", "SSD-10", "SSD-6", "fb012", "BADI-1">>

handlePools ==
    json([i \in 1..Len(PoolOrder) |->
            [pool_id |-> PoolOrder[i], pool_name |-> POOLS[PoolOrder[i]],
             type |-> PoolType(PoolOrder[i])]], "", 200)

handleRequest(method, path, hoursParam, poolParam, table, t, dbOk) ==
    IF method = "OPTIONS" THEN handleOptions
    ELSE IF method # "GET" THEN json(<<>>, "Method not allowed", 405)
    ELSE CASE path = "/api/current" -> handleCurrent(table, dbOk)
           [] path = "/api/history" -> handleHistory(table, hoursParam, poolParam, t, dbOk)
           [] path = "/api/pools" -> handlePools
           [] OTHER -> json(<<>>, "Not found", 404)

----------------------------------------------------------------------------
(* index: the scheduled() handler                                          *)

CRON_PERIOD == 300
CLEANUP_HOUR == 0
CLEANUP_MINUTES == 5

getUTCHours(t) == (t % SecondsPerDay) \div 3600
getUTCMinutes(t) == (t % 3600) \div 60

\* Mutant: the window is the whole hour 0.
shouldCleanup_wholeHour(scheduledTime) == getUTCHours(scheduledTime) = CLEANUP_HOUR

shouldCleanup(scheduledTime) ==
    getUTCHours(scheduledTime) = CLEANUP_HOUR /\ getUTCMinutes(scheduledTime) < CLEANUP_MINUTES

\* The invocation before the cron trigger has fired.
IdleTick ==
    [pc |-> "idle",          \* idle | fetch | await | batch | cleanup | done
     scheduledTime |-> 0,
     scrape |-> "none",      \* none | ok | failed: how scrapeAndStore ended
     scrapeError |-> "none", \* what it threw
     appended |-> 0,         \* db.batch() calls of this invocation that landed
     stored |-> <<>>,        \* the array and the instant of the batch that landed
     gate |-> FALSE,         \* the cleanup window was evaluated
     cleanup |-> "none",     \* none | skipped | ok | failed
     escaped |-> FALSE,      \* an exception left the handler
     afterFailure |-> FALSE] \* the invocation before this one had a failed step

\* The code from the end of the scrape step to the next await: the window is
\* evaluated, and either cleanupOldData's DELETE is issued or the handler ends.
gate(tk) ==
    IF shouldCleanup(tk.scheduledTime)
    THEN [tk EXCEPT !.pc = "cleanup", !.gate = TRUE]
    ELSE [tk EXCEPT !.pc = "done", !.gate = TRUE, !.cleanup = "skipped"]

\* Mutant: no try/catch around the scrape step: the exception leaves the
\* handler before the window is evaluated.
scrapeCatch_rethrow(tk, e) ==
    [tk EXCEPT !.pc = "done", !.scrape = "failed", !.scrapeError = e, !.escaped = TRUE]

\* catch (err) { console.error('Scrape failed:', err) }, then on to the gate.
scrapeCatch(tk, e) == gate([tk EXCEPT !.scrape = "failed", !.scrapeError = e])

\* scrapeAndStore returned: on to the gate.
scrapeReturn(tk) == gate([tk EXCEPT !.scrape = "ok"])

\* Mutant: no test for an empty array of records: the batch is written.
afterFetch_noEmptyTest(tk, records) == [tk EXCEPT !.pc = "batch"]

\* scrapeAndStore after `await fetchFromWebSocket()`: it returns 0 when there
\* are no records, and goes on to db.batch otherwise.
afterFetch(tk, records) ==
    IF Len(records) = 0 THEN scrapeReturn(tk) ELSE [tk EXCEPT !.pc = "batch"]

\* catch (err) { console.error('Cleanup failed:', err) }: the handler ends.
cleanupCatch(tk) == [tk EXCEPT !.pc = "done", !.cleanup = "failed"]

----------------------------------------------------------------------------
(* Bounds and inputs                                                       *)

MaxRows == 2        \* rows the table holds
MaxMessages == 2    \* message events delivered to one socket
MaxCalls == 2       \* scrapeAndStore calls that run side by side

\* The cron instants the clock visits: day 100 at 00:00 (inside the cleanup
\* window) and at 02:00 (outside it), then 90 and 91 days later at 00:00.
Day0 == Day(100)
CronPoints == {Day0, Day0 + 7200, Day(190), Day(191)}

\* The seconds an invocation has run for when its message is captured and
\* when its DELETE runs.
CaptureDelays == {1}
CleanupDelays == {3}

\* Upstream entries: a tracked pool, a tracked pool of unknown capacity with
\* its fill sent as a string, and a pool the catalog does not list.
EntryCity == [uid |-> "SSD-4", maxspace |-> JsNum(500), currentfill |-> JsNum(125)]
EntryOerlikon == [uid |-> "SSD-7", maxspace |-> JsNum(0), currentfill |-> JsStr(<<"5">>)]
EntryOther == [uid |-> "XX-1", maxspace |-> JsNum(100), currentfill |-> JsNum(10)]

\* entry.uid of an array element that has no uid: undefined, in no Set of ids.
MissingUid == ""

\* Array elements of the wrong shape: one with none of the three fields
\* ({} or a number), and one with a tracked uid and nothing else.
EntryShapeless == [uid |-> MissingUid, maxspace |-> Undefined, currentfill |-> Undefined]
EntryBare == [uid |-> "SSD-10", maxspace |-> Undefined, currentfill |-> Undefined]

\* The arrays the upstream sends.
Payloads ==
    {<<>>, <<EntryOther>>, <<EntryCity>>, <<EntryOther, EntryOerlikon>>,
     <<EntryCity, EntryOther>>, <<EntryCity, EntryOerlikon>>,
     <<EntryShapeless>>, <<EntryCity, EntryShapeless>>, <<EntryBare>>}

Messages ==
    {[kind |-> "unparseable"], [kind |-> "notArray"]}
    \cup {[kind |-> "array", entries |-> e] : e \in Payloads}

Methods == {"GET", "OPTIONS", "POST"}
Paths == {"/api/current", "/api/history", "/api/pools", "/api/other"}
HoursParams == {Null, JsStr(<<"1">>), JsStr(<<"x">>)}
PoolParams == {Null, JsText(""), JsText("SSD-4")}

\* The requests served: every method on every path, and every pair of
\* parameters on the one path that reads them.
Requests ==
    {[method |-> m, path |-> p, hours |-> Null, pool |-> Null] :
        m \in Methods, p \in Paths}
    \cup {[method |-> "GET", path |-> "/api/history", hours |-> h, pool |-> q] :
        h \in HoursParams, q \in PoolParams}

\* The requests during which the database is taken to fail: those that
\* query it, with the parameters left out.
FailingRequests ==
    {[method |-> "GET", path |-> p, hours |-> Null, pool |-> Null] :
        p \in {"/api/current", "/api/history"}}

NoRequest == [method |-> "", path |-> "", hours |-> Null, pool |-> Null]

\* No fetch() invocation has just run.
NoResp == [rq |-> NoRequest, dbOk |-> TRUE, out |-> [kind |-> "none"]]

----------------------------------------------------------------------------
(* The worker: cron invocations, the scrape call, the read API             *)

WorkerInit ==
    /\ now = Day0
    /\ occupancy = <<>>
    /\ tick = IdleTick
    /\ ws = NoWs
    /\ resp = NoResp

CalcIdle ==
    cEntry = <<>> /\ cRecord = [applied |-> FALSE, records |-> <<>>, written |-> "none"]
HoursIdle == qParam = Null /\ qBound = <<>>

\* A scrapeAndStore call that has not been made.
IdleCall ==
    [pc |-> "idle",       \* idle | await | batch | done
     records |-> <<>>,    \* what fetchFromWebSocket resolved with
     result |-> "none"]   \* none | ok | empty | failed

Callers == 1..MaxCalls

\* No statement has run against the table.
NoStatement == [op |-> "none", at |-> 0, changes |-> 0, repeat |-> FALSE, before |-> 0]

StoreIdle == calls = [c \in Callers |-> IdleCall] /\ last = NoStatement

Init == WorkerInit /\ CalcIdle /\ HoursIdle /\ StoreIdle

Running == tick.pc \notin {"idle", "done"}

\* The socket of an invocation, gone with it when the handler has ended.
Live(tk, w) == IF tk.pc = "done" THEN NoWs ELSE w

\* The instants a step of the running invocation happens at, for the seconds
\* it may have run for: never before now.
StepTimes(delays) ==
    {IF tick.scheduledTime + d > now THEN tick.scheduledTime + d ELSE now : d \in delays}

\* Time passes between invocations, up to a later cron instant.
Advance ==
    /\ ~Running
    /\ \E t \in CronPoints : t > now /\ now' = t
    /\ resp' = NoResp
    /\ UNCHANGED <<occupancy, tick, ws, pureVars>>

\* The cron trigger fires scheduled() at a multiple of five minutes, once
\* per instant, when the invocation before it has ended.
TickFire ==
    /\ ~Running
    /\ now % CRON_PERIOD = 0
    /\ tick.pc = "done" => now > tick.scheduledTime
    /\ tick' = [IdleTick EXCEPT
                    !.pc = "fetch",
                    !.scheduledTime = now,
                    !.afterFailure = (tick.scrape = "failed" \/ tick.cleanup = "failed")]
    /\ ws' = NoWs
    /\ resp' = NoResp
    /\ UNCHANGED <<now, occupancy, pureVars>>

\* fetch() throws or answers without a webSocket: 'WebSocket upgrade failed'.
UpgradeFail ==
    /\ tick.pc = "fetch"
    /\ tick' = scrapeCatch(tick, "upgrade")
    /\ resp' = NoResp
    /\ UNCHANGED <<now, occupancy, ws, pureVars>>

\* The upgrade succeeds: ws.accept(), the promise and its timers.
UpgradeOk ==
    /\ tick.pc = "fetch"
    /\ tick' = [tick EXCEPT !.pc = "await"]
    /\ ws' = NewWs
    /\ resp' = NoResp
    /\ UNCHANGED <<now, occupancy, pureVars>>

\* The 500 ms timer fires.
SendTimer ==
    /\ Running /\ ws.open /\ ws.sendArmed
    /\ ws' = onSendTimer(ws)
    /\ resp' = NoResp
    /\ UNCHANGED <<now, occupancy, tick, pureVars>>

\* The 10 s timer fires: after the 500 ms one, and only while it is set.
Timeout ==
    /\ Running /\ ws.open /\ ws.timeoutArmed /\ ~ws.sendArmed
    /\ ws' = onTimeout(ws)
    /\ resp' = NoResp
    /\ UNCHANGED <<now, occupancy, tick, pureVars>>

\* A message event is delivered, at some instant.
Message ==
    /\ Running /\ ws.open /\ ws.msgs < MaxMessages
    /\ \E m \in Messages, t \in StepTimes(CaptureDelays) :
          /\ now' = t
          /\ ws' = onMessage(ws, m, t)
    /\ resp' = NoResp
    /\ UNCHANGED <<occupancy, tick, pureVars>>

\* The error event is delivered.
ErrorEvent ==
    /\ Running /\ ws.open /\ ~ws.errored
    /\ ws' = onError(ws)
    /\ resp' = NoResp
    /\ UNCHANGED <<now, occupancy, tick, pureVars>>

\* scrapeAndStore resumes after `await fetchFromWebSocket()` and runs to its
\* next await (db.batch), or ends and the handler runs on to its next await.
AwaitSettled ==
    /\ tick.pc = "await" /\ ws.promise # "pending"
    /\ tick' = IF ws.promise = "rejected" THEN scrapeCatch(tick, ws.error)
               ELSE afterFetch(tick, ws.value)
    /\ ws' = Live(tick', ws)
    /\ resp' = NoResp
    /\ UNCHANGED <<now, occupancy, pureVars>>

\* db.batch(batch) lands.
BatchOk ==
    /\ tick.pc = "batch"
    /\ Len(occupancy) + Len(ws.value) <= MaxRows
    /\ batchAccepted(ws.value)
    /\ occupancy' = batchInsert(occupancy, ws.value)
    /\ tick' = scrapeReturn([tick EXCEPT
                    !.appended = @ + 1,
                    !.stored = <<[data |-> ws.data, at |-> ws.at]>>])
    /\ ws' = Live(tick', ws)
    /\ resp' = NoResp
    /\ UNCHANGED <<now, pureVars>>

\* db.batch(batch) throws: no row of the batch is written.
BatchFail ==
    /\ tick.pc = "batch"
    /\ tick' = scrapeCatch(tick, "StoreWriteFailure")
    /\ ws' = Live(tick', ws)
    /\ resp' = NoResp
    /\ UNCHANGED <<now, occupancy, pureVars>>

\* cleanupOldData's DELETE runs, at some instant.
CleanupOk ==
    /\ tick.pc = "cleanup"
    /\ \E t \in StepTimes(CleanupDelays) :
          /\ now' = t
          /\ occupancy' = cleanupDelete(occupancy, t)
    /\ tick' = [tick EXCEPT !.pc = "done", !.cleanup = "ok"]
    /\ ws' = NoWs
    /\ resp' = NoResp
    /\ UNCHANGED pureVars

\* cleanupOldData's DELETE throws.
CleanupFail ==
    /\ tick.pc = "cleanup"
    /\ tick' = cleanupCatch(tick)
    /\ ws' = NoWs
    /\ resp' = NoResp
    /\ UNCHANGED <<now, occupancy, pureVars>>

\* fetch(request): one request served by handleRequest.  A request served
\* while an invocation runs reads the table and the clock of a state before
\* or after one of its two statements, so requests are taken between
\* invocations.
Request ==
    /\ ~Running
    /\ \E rq \in Requests, dbOk \in BOOLEAN :
          /\ dbOk \/ rq \in FailingRequests
          /\ resp' = [rq |-> rq, dbOk |-> dbOk,
                      out |-> handleRequest(rq.method, rq.path, rq.hours, rq.pool,
                                            occupancy, now, dbOk)]
    /\ UNCHANGED <<now, occupancy, tick, ws, pureVars>>

Next ==
    \/ Advance \/ TickFire \/ UpgradeFail \/ UpgradeOk \/ SendTimer \/ Timeout
    \/ Message \/ ErrorEvent \/ AwaitSettled \/ BatchOk \/ BatchFail
    \/ CleanupOk \/ CleanupFail \/ Request

Spec == Init /\ [][Next]_vars

----------------------------------------------------------------------------
(* The derived fields of one entry, over a range of field values           *)

MaxCalc == 8        \* the largest of the consecutive field values tried

CalcNumbers == (0 - 2)..MaxCalc \cup {50, 125, 200, 500, 1250, 5001}

CalcValues ==
    {JsNum(n) : n \in CalcNumbers}
    \cup {JsStr(<<"5", "0">>), JsStr(<<"a">>), JsStr(<<>>), Null, Undefined}

CalcEntries ==
    {[uid |-> u, maxspace |-> c, currentfill |-> f] :
        u \in {"SSD-4", "XX-1"}, c \in CalcValues, f \in CalcValues}

CalcInit ==
    /\ cEntry \in {<<e>> : e \in CalcEntries}
    /\ cRecord = [applied |-> FALSE, records |-> <<>>, written |-> "none"]

\* The filter and the map callback run on the entry.
MapEntry ==
    /\ ~cRecord.applied
    /\ cRecord' = [applied |-> TRUE, records |-> toRecords(cEntry, toISOString(now)),
                   written |-> "none"]
    /\ UNCHANGED <<cEntry, now, occupancy, tick, ws, resp, qParam, qBound, storeVars>>

\* scrapeAndStore writes the records it got as one batch: the batch lands
\* when the table's constraints accept every row, and throws otherwise.
InsertRecords ==
    /\ cRecord.applied /\ cRecord.written = "none"
    /\ Len(cRecord.records) > 0
    /\ IF batchAccepted(cRecord.records)
       THEN /\ occupancy' = batchInsert(occupancy, cRecord.records)
            /\ cRecord' = [cRecord EXCEPT !.written = "ok"]
       ELSE /\ occupancy' = occupancy
            /\ cRecord' = [cRecord EXCEPT !.written = "failed"]
    /\ UNCHANGED <<cEntry, now, tick, ws, resp, qParam, qBound, storeVars>>

NextCalc == MapEntry \/ InsertRecords

InitCalc == WorkerInit /\ CalcInit /\ HoursIdle /\ StoreIdle

SpecCalc == InitCalc /\ [][NextCalc]_vars

----------------------------------------------------------------------------
(* The hours bound to the range query, over a range of parameter texts     *)

MaxParamLen == 3    \* characters of the `hours` parameter

SeqsUpTo(S, n) == UNION {[1..k -> S] : k \in 0..n}

HourChars == {"0", "1", "6", "7", "9", "-", "x", " "}

HoursInputs ==
    {Null, JsStr(<<"9", "9", "9", "9", "9">>), JsStr(<<"2", "4">>)}
    \cup {JsStr(t) : t \in SeqsUpTo(HourChars, MaxParamLen)}

HoursInit ==
    /\ qParam \in HoursInputs
    /\ qBound = <<>>

\* handleHistory computes the value it binds.
BindHours ==
    /\ qBound = <<>>
    /\ qBound' = <<clampedHours(qParam)>>
    /\ UNCHANGED <<qParam, now, occupancy, tick, ws, resp, cEntry, cRecord, storeVars>>

InitHours == WorkerInit /\ CalcIdle /\ HoursInit /\ StoreIdle

SpecHours == InitHours /\ [][BindHours]_vars

----------------------------------------------------------------------------
(* The cleanup window, over every cron instant of some days                *)

MaxDays == 2        \* days of cron instants

\* The cron fires every five minutes, on the multiples of five minutes.
TicksPerDay == SecondsPerDay \div CRON_PERIOD

TickTimes == {Day0 + k * CRON_PERIOD : k \in 0..(MaxDays * TicksPerDay - 1)}

\* The seconds the scrape step may take: the 500 ms and 10 s timers, and a
\* fetch that outlasts the next cron instant.
ScrapeDurations == {1, 10, CRON_PERIOD + 100}

\* scheduled() has been invoked at a cron instant.
GateInit ==
    /\ now \in TickTimes
    /\ tick = [IdleTick EXCEPT !.pc = "fetch", !.scheduledTime = now]
    /\ occupancy = <<>>
    /\ ws = NoWs
    /\ resp = NoResp

\* The scrape step returns after some time: the handler runs on to the gate.
ScrapeStepReturns ==
    /\ tick.pc = "fetch"
    /\ \E d \in ScrapeDurations : now' = tick.scheduledTime + d
    /\ tick' = scrapeReturn(tick)
    /\ UNCHANGED <<occupancy, ws, resp, pureVars>>

\* The scrape step throws after some time: caught, and on to the gate.
ScrapeStepThrows ==
    /\ tick.pc = "fetch"
    /\ \E d \in ScrapeDurations : now' = tick.scheduledTime + d
    /\ \E e \in {"upgrade", "timeout", "StoreWriteFailure"} : tick' = scrapeCatch(tick, e)
    /\ UNCHANGED <<occupancy, ws, resp, pureVars>>

InitGate == GateInit /\ CalcIdle /\ HoursIdle /\ StoreIdle

NextGate == ScrapeStepReturns \/ ScrapeStepThrows

SpecGate == InitGate /\ [][NextGate]_vars

----------------------------------------------------------------------------
(* The table under scrapeAndStore calls that overlap, cleanups and reads   *)

\* The instants the clock visits: day 100 and day 190 at 00:00, then day 191
\* at 02:00, when the rows of day 100 are more than 90 days old.
StorePoints == {Day0, Day(190), Day(191) + 7200}

\* The arrays the upstream sends to these calls; one lists a facility twice.
StorePayloads ==
    {<<EntryOther>>, <<EntryCity, EntryOerlikon>>, <<EntryCity, EntryCity>>}

\* The queries the readers send.
StoreRequests ==
    {[method |-> "GET", path |-> "/api/current", hours |-> Null, pool |-> Null]}
    \cup {[method |-> "GET", path |-> "/api/history", hours |-> h, pool |-> q] :
            h \in {Null, JsStr(<<"1">>)}, q \in {Null, JsText("SSD-4")}}

\* The statement that has just run, after the one recorded in `last`.
Statement(op, at, changes) ==
    [op |-> op, at |-> at, changes |-> changes,
     repeat |-> (op = "cleanup" /\ last.op = "cleanup" /\ last.at = at),
     before |-> IF op = "cleanup" /\ last.op = "cleanup" /\ last.at = at
                THEN last.changes ELSE 0]

\* Time passes.
StoreAdvance ==
    /\ \E t \in StorePoints : t > now /\ now' = t /\ last' = Statement("none", t, 0)
    /\ resp' = NoResp
    /\ UNCHANGED <<occupancy, tick, ws, calls, cEntry, cRecord, qParam, qBound>>

\* scrapeAndStore(db) is called and waits for fetchFromWebSocket().
CallStart(c) ==
    /\ calls[c].pc = "idle"
    /\ calls' = [calls EXCEPT ![c].pc = "await"]
    /\ last' = Statement("none", now, 0)
    /\ resp' = NoResp
    /\ UNCHANGED <<now, occupancy, tick, ws, cEntry, cRecord, qParam, qBound>>

\* fetchFromWebSocket() resolves with the records of the array captured now:
\* the call returns 0 when there are none, and prepares its batch otherwise.
CallResolved(c) ==
    /\ calls[c].pc = "await"
    /\ \E data \in StorePayloads :
          LET records == toRecords(data, toISOString(now))
          IN  calls' = [calls EXCEPT
                  ![c] = IF Len(records) = 0
                         THEN [pc |-> "done", records |-> records, result |-> "empty"]
                         ELSE [pc |-> "batch", records |-> records, result |-> "none"]]
    /\ last' = Statement("none", now, 0)
    /\ resp' = NoResp
    /\ UNCHANGED <<now, occupancy, tick, ws, cEntry, cRecord, qParam, qBound>>

\* fetchFromWebSocket() rejects: scrapeAndStore throws.
CallRejected(c) ==
    /\ calls[c].pc = "await"
    /\ calls' = [calls EXCEPT ![c].pc = "done", ![c].result = "failed"]
    /\ last' = Statement("none", now, 0)
    /\ resp' = NoResp
    /\ UNCHANGED <<now, occupancy, tick, ws, cEntry, cRecord, qParam, qBound>>

\* db.batch(batch) lands.
CallBatchOk(c) ==
    /\ calls[c].pc = "batch"
    /\ batchAccepted(calls[c].records)
    /\ occupancy' = batchInsert(occupancy, calls[c].records)
    /\ calls' = [calls EXCEPT ![c].pc = "done", ![c].result = "ok"]
    /\ last' = Statement("append", now, Len(occupancy') - Len(occupancy))
    /\ resp' = NoResp
    /\ UNCHANGED <<now, tick, ws, cEntry, cRecord, qParam, qBound>>

\* db.batch(batch) throws.
CallBatchFail(c) ==
    /\ calls[c].pc = "batch"
    /\ calls' = [calls EXCEPT ![c].pc = "done", ![c].result = "failed"]
    /\ last' = Statement("none", now, 0)
    /\ resp' = NoResp
    /\ UNCHANGED <<now, occupancy, tick, ws, cEntry, cRecord, qParam, qBound>>

\* cleanupOldData(db): the DELETE runs; result.meta.changes rows are gone.
StoreCleanup ==
    /\ occupancy' = cleanupDelete(occupancy, now)
    /\ last' = Statement("cleanup", now, Len(occupancy) - Len(occupancy'))
    /\ resp' = NoResp
    /\ UNCHANGED <<now, tick, ws, calls, cEntry, cRecord, qParam, qBound>>

\* handleRequest serves a reader.
StoreRead ==
    /\ \E rq \in StoreRequests :
          resp' = [rq |-> rq, dbOk |-> TRUE,
                   out |-> handleRequest(rq.method, rq.path, rq.hours, rq.pool,
                                         occupancy, now, TRUE)]
    /\ last' = Statement("read", now, 0)
    /\ UNCHANGED <<now, occupancy, tick, ws, calls, cEntry, cRecord, qParam, qBound>>

NextStore ==
    \/ StoreAdvance
    \/ \E c \in Callers : CallStart(c)
    \/ \E c \in Callers : CallResolved(c)
    \/ \E c \in Callers : CallRejected(c)
    \/ \E c \in Callers : CallBatchOk(c)
    \/ \E c \in Callers : CallBatchFail(c)
    \/ StoreCleanup
    \/ StoreRead

SpecStore == Init /\ [][NextStore]_vars

----------------------------------------------------------------------------
(* Properties                                                              *)

Rows(seq) == {seq[i] : i \in 1..Len(seq)}
Count(seq, r) == Cardinality({i \in 1..Len(seq) : seq[i] = r})

\* The two sequences hold the same rows, each as many times.
SameRows(a, b) ==
    /\ Len(a) = Len(b)
    /\ \A r \in Rows(a) \cup Rows(b) : Count(a, r) = Count(b, r)

\* The record the map callback produced for a tracked entry whose coerced
\* capacity and fill are numbers.
Produced(r) ==
    /\ cRecord.applied
    /\ cRecord.records = <<r>>
    /\ ~IsNaN(r.max_capacity) /\ ~IsNaN(r.current_fill)

\* p is x / y rounded to the nearest integer, halves upwards (y > 0).
IsRounded(p, x, y) == 2 * y * p - y <= 2 * x /\ 2 * x < 2 * y * p + y

\* l is the quartile of fill / capacity, counted from 1 and capped at 4.
IsQuartile(l, fill, capacity) ==
    /\ l \in 1..4
    /\ (l - 1) * capacity <= 4 * fill
    /\ l < 4 => 4 * fill < l * capacity

\* C1 (as amended): for a tracked entry with capacity > 0 and fill >= 0 the
\* record's occupancy_percent is fill / capacity * 100 rounded to two
\* decimals, and its occupancy_level is min(4, floor(q / 25) + 1) for the
\* unrounded percentage q = fill / capacity * 100.
C1_PercentRoundedLevelFromRatio ==
    \A r \in Rows(cRecord.records) :
        (Produced(r) /\ r.max_capacity > 0 /\ r.current_fill >= 0) =>
            /\ IsRounded(r.occupancy_percent, r.current_fill * 10000, r.max_capacity)
            /\ IsQuartile(r.occupancy_level, r.current_fill, r.max_capacity)

\* C1 as stated: the level is min(4, floor(p / 25) + 1) for the rounded
\* two-decimal occupancy_percent p of the same record.
C1_LevelFromRoundedPercent ==
    \A r \in Rows(cRecord.records) :
        (Produced(r) /\ r.max_capacity > 0 /\ r.current_fill >= 0) =>
            /\ IsRounded(r.occupancy_percent, r.current_fill * 10000, r.max_capacity)
            /\ r.occupancy_level =
                 (IF r.occupancy_percent \div 2500 + 1 < 4
                  THEN r.occupancy_percent \div 2500 + 1 ELSE 4)

\* C1 witness: fill 1250 of capacity 5001 is stored as 25.00 percent, level 1.
C1_Witness ==
    \E r \in Rows(cRecord.records) :
        /\ Produced(r)
        /\ r.current_fill = 1250 /\ r.max_capacity = 5001
        /\ r.occupancy_percent = 2500 /\ r.occupancy_level = 1

\* C2: for a tracked entry with capacity <= 0 the record has
\* occupancy_percent 0 and occupancy_level 0, whatever the fill.
C2_UnknownCapacityIsZero ==
    \A r \in Rows(cRecord.records) :
        (cRecord.applied /\ ~IsNaN(r.max_capacity) /\ r.max_capacity <= 0) =>
            r.occupancy_percent = 0 /\ r.occupancy_level = 0

\* C2 witness: capacity 0 with a positive fill.
C2_Witness ==
    \E r \in Rows(cRecord.records) :
        /\ cRecord.applied
        /\ r.max_capacity = 0 /\ r.current_fill = 50
        /\ r.occupancy_percent = 0 /\ r.occupancy_level = 0

\* The `hours` text is a decimal integer, as parseInt reads it: an optional
\* sign and at least one digit after any leading white space.
IsNumericParam(q) ==
    /\ q # Null
    /\ LET t == SkipSpaces(q.s)
           u == IF t # <<>> /\ Head(t) \in {"-", "+"} THEN Tail(t) ELSE t
       IN  u # <<>> /\ Head(u) \in Digits

\* C3 as stated: the hours bound to the range query are an integer in
\* 1..672, and 24 when the parameter is missing or not numeric.
C3_HoursBoundInRange ==
    qBound # <<>> =>
        /\ ~IsNaN(qBound[1])
        /\ qBound[1] \in 1..672
        /\ ~IsNumericParam(qParam) => qBound[1] = 24

\* C4 as stated: a cleanup that runs at time `now` leaves exactly the rows
\* captured at or after now - 90 days.
C4_CleanupRemovesOlderThan90Days ==
    [][(tick.pc = "cleanup" /\ tick'.cleanup = "ok") =>
        occupancy' = SelectSeq(occupancy,
            LAMBDA r : InstantOf(r.timestamp) >= now' - 90 * SecondsPerDay)]_vars

\* The response to a GET of `path` that the database answered.
Answered(path) ==
    /\ resp.out.kind = "response"
    /\ resp.rq.method = "GET" /\ resp.rq.path = path
    /\ resp.dbOk

\* C5 as stated: /api/history with effective hours h and pool p returns
\* exactly the rows captured at or after now - h hours, of pool p when p is
\* given and of every pool when it is absent or empty.
C5_HistoryReturnsWindow ==
    (Answered("/api/history") /\ ~IsNaN(clampedHours(resp.rq.hours))) =>
        SameRows(resp.out.body,
            SelectSeq(occupancy,
                LAMBDA r :
                    /\ InstantOf(r.timestamp) >= now - clampedHours(resp.rq.hours) * 3600
                    /\ \/ resp.rq.pool = Null
                       \/ resp.rq.pool.t = ""
                       \/ r.pool_id = resp.rq.pool.t))

\* The latest capture instant of a table that is not empty.
LatestInstant(table) ==
    CHOOSE m \in {InstantOf(r.timestamp) : r \in Rows(table)} :
        \A r \in Rows(table) : InstantOf(r.timestamp) <= m

\* C6: /api/current returns every row captured at the latest instant in the
\* table and no other row; it is empty only when the table is.
C6_CurrentIsLatestSnapshot ==
    Answered("/api/current") =>
        /\ resp.out.body = <<>> <=> occupancy = <<>>
        /\ occupancy # <<>> =>
             SameRows(resp.out.body,
                 SelectSeq(occupancy,
                     LAMBDA r : InstantOf(r.timestamp) = LatestInstant(occupancy)))

\* C6 witness: the table holds rows of two capture times and /api/current
\* returns fewer rows than the table holds.
C6_Witness ==
    /\ Answered("/api/current")
    /\ \E i, j \in 1..Len(occupancy) : occupancy[i].timestamp # occupancy[j].timestamp
    /\ resp.out.body # <<>>
    /\ Len(resp.out.body) < Len(occupancy)

\* C7: every stored row's pool_id is a key of the pool catalog.
C7_OnlyTrackedPoolsStored ==
    \A r \in Rows(occupancy) :
        r.pool_id \in {"SSD-4", "SSD-7", "SSD-10", "SSD-6", "fb012", "BADI-1"}

\* C7 witness: a batch landed from an array that also held untracked entries.
C7_Witness ==
    /\ ws.open /\ ws.promise = "resolved" /\ ws.untracked > 0
    /\ tick.appended = 1
    /\ Len(ws.value) > 0
    /\ \A r \in Rows(ws.value) : r \in Rows(occupancy)

\* C8: once the 10 s timer has fired, the call is rejected with the timeout
\* error and stays so, close() has been called, and the invocation writes no
\* batch, whatever arrives afterwards.
C8_TimeoutWritesNothing ==
    /\ (ws.open /\ ws.timedOut) =>
          /\ ws.promise = "rejected" /\ ws.error = "timeout"
          /\ ws.closeCalls >= 1
          /\ tick.pc # "batch" /\ tick.appended = 0
          /\ tick.pc # "await" => (tick.scrape = "failed" /\ tick.scrapeError = "timeout")
    /\ tick.scrapeError = "timeout" => (tick.scrape = "failed" /\ tick.appended = 0)

\* C8 witness: a message was delivered after the timer fired and after
\* scrapeAndStore had thrown the timeout error.
C8_Witness ==
    /\ ws.open /\ ws.timedOut /\ ws.msgs > 0
    /\ tick.scrape = "failed" /\ tick.scrapeError = "timeout"
    /\ tick.appended = 0

\* C9 as stated: when the database fails under /api/current or
\* /api/history, handleRequest returns a JSON response of status 500 with
\* the CORS headers, and throws nothing.
C9_StoreFailureIs500 ==
    (resp.out.kind # "none" /\ ~resp.dbOk) =>
        /\ resp.out.kind = "response"
        /\ resp.out.status = 500 /\ resp.out.json /\ resp.out.cors

\* The scheduled time lies in the first five minutes of a UTC day.
InCleanupWindow(t) == t % SecondsPerDay < 5 * 60

\* C10: an invocation that has ended evaluated the cleanup window and, inside
\* the window, attempted the cleanup, whether its scrape step succeeded or
\* failed; no exception left the handler.
C10_TickIsolatesFailures ==
    /\ ~tick.escaped
    /\ tick.pc = "cleanup" => (tick.gate /\ InCleanupWindow(tick.scheduledTime))
    /\ tick.pc = "done" =>
          /\ tick.scrape \in {"ok", "failed"}
          /\ tick.gate
          /\ IF InCleanupWindow(tick.scheduledTime)
             THEN tick.cleanup \in {"ok", "failed"}
             ELSE tick.cleanup = "skipped"

\* C10 witness: after an invocation with a failed step, an invocation whose
\* scrape failed went on to run the cleanup.
C10_Witness ==
    /\ tick.pc = "done" /\ tick.afterFailure
    /\ tick.scrape = "failed" /\ tick.cleanup = "ok"

\* The calls whose batch has landed.
Landed == {c \in Callers : calls[c].result = "ok"}

\* The records of a set of calls, one call after the other.
RECURSIVE Flat(_)
Flat(S) ==
    IF S = {} THEN <<>>
    ELSE LET c == CHOOSE x \in S : \A y \in S : x <= y
         IN  calls[c].records \o Flat(S \ {c})

\* The rows are the records of some calls whose batch has landed, each call
\* with all of its records.
WholeBatches(rows) == \E S \in SUBSET Landed : SameRows(rows, Flat(S))

\* C11: in every state, also while calls overlap and after cleanups, the
\* table holds all the records of a scrape call or none of them, and what
\* /api/current and an unfiltered /api/history return is made of whole
\* batches.
C11_BatchIsAtomic ==
    /\ WholeBatches(occupancy)
    /\ Answered("/api/current") => WholeBatches(resp.out.body)
    /\ (Answered("/api/history") /\ resp.rq.pool = Null) => WholeBatches(resp.out.body)

\* C11 witness: a reader is answered with a two-row batch that landed while
\* the batch of an overlapping call is still to be written.
C11_Witness ==
    /\ Answered("/api/current")
    /\ \E c, d \in Callers :
          /\ calls[c].result = "ok" /\ Len(calls[c].records) = 2
          /\ calls[d].pc = "batch"
          /\ SameRows(resp.out.body, calls[c].records)

\* The catalog's display name of a facility id.
CatalogName(id) ==
    CASE id = "SSD-4" -> "Hallenbad City" [] id = "SSD-7" -> "Hallenbad Oerlikon"
      [] id = "SSD-10" -> "Utoquai" [] id = "SSD-6" -> "Leimbach"
      [] id = "fb012" -> "Heuried" [] id = "BADI-1" -> "Enge"

\* r is the record of the tracked entry e captured at the instant T.
IsRecordOf(r, e, T) ==
    /\ r.pool_id = e.uid /\ r.pool_name = CatalogName(e.uid)
    /\ r.timestamp[2] = CodeT /\ InstantOf(r.timestamp) = T
    /\ r.current_fill = ToNumber(e.currentfill)
    /\ r.max_capacity = ToNumber(e.maxspace)
    /\ IF r.max_capacity > 0 /\ r.current_fill >= 0
       THEN /\ IsRounded(r.occupancy_percent, r.current_fill * 10000, r.max_capacity)
            /\ IsQuartile(r.occupancy_level, r.current_fill, r.max_capacity)
       ELSE r.max_capacity <= 0 => (r.occupancy_percent = 0 /\ r.occupancy_level = 0)

\* C12: when the invocation that ran last stored the batch of an array
\* captured at T, /api/current returns one record for each tracked entry of
\* that array and nothing else, each with timestamp T, the catalog name of
\* its id and the derived percent and level; for the array of the one entry
\* SSD-4 with capacity 500 and fill 125 it returns one record with percent
\* 25.00, level 2 and name "Hallenbad City".
C12_CurrentReturnsIngestedPayload ==
    (Answered("/api/current") /\ tick.pc = "done" /\ tick.stored # <<>>) =>
        LET data == tick.stored[1].data
            T == tick.stored[1].at
            tracked == SelectSeq(data,
                LAMBDA e : e.uid \in {"SSD-4", "SSD-7", "SSD-10", "SSD-6", "fb012", "BADI-1"})
            body == resp.out.body
        IN  /\ Len(body) = Len(tracked)
            /\ \A i \in 1..Len(tracked) :
                  Cardinality({j \in 1..Len(body) : IsRecordOf(body[j], tracked[i], T)}) = 1
            /\ data = <<[uid |-> "SSD-4", maxspace |-> JsNum(500), currentfill |-> JsNum(125)]>>
                  => /\ Len(body) = 1
                     /\ body[1].occupancy_percent = 2500
                     /\ body[1].occupancy_level = 2
                     /\ body[1].pool_name = "Hallenbad City"

\* C12 witness: the table holds an older snapshot, the invocation that ran
\* last stored the array of the one entry SSD-4 500/125, and /api/current
\* returned its record.
C12_Witness ==
    /\ Answered("/api/current") /\ tick.pc = "done" /\ tick.stored # <<>>
    /\ tick.stored[1].data =
          <<[uid |-> "SSD-4", maxspace |-> JsNum(500), currentfill |-> JsNum(125)]>>
    /\ Len(occupancy) = 2
    /\ Len(resp.out.body) = 1
    /\ resp.out.body[1].occupancy_percent = 2500 /\ resp.out.body[1].occupancy_level = 2

\* C13: a cleanup that runs right after a cleanup at the same instant, with
\* no append in between, reports zero deleted rows and leaves the table as
\* the first one left it.
C13_CleanupIsIdempotent ==
    [][(last'.op = "cleanup" /\ last'.repeat) =>
          (last'.changes = 0 /\ occupancy' = occupancy)]_vars

\* C13 witness: the first cleanup deleted rows, the second ran at the same
\* instant and deleted none.
C13_Witness ==
    /\ last.op = "cleanup" /\ last.repeat
    /\ last.before > 0 /\ last.changes = 0

\* Every row of a is a row of b, at least as many times.
SubRows(a, b) == \A r \in Rows(a) : Count(a, r) <= Count(b, r)

\* Effective hours the range of a second query is taken from.
WiderHours == {1, 2, 24, 25, 168, 672}

\* C14: what /api/history returns for effective hours h1 is contained in
\* what the same query returns, on the same table at the same instant with
\* the same facility filter, for every effective hours h2 >= h1; so the
\* result for hours=1 is contained in the result for hours=24.
C14_HistoryMonotoneInHours ==
    (Answered("/api/history") /\ ~IsNaN(clampedHours(resp.rq.hours))) =>
        \A h2 \in WiderHours :
            clampedHours(resp.rq.hours) <= h2 =>
                SubRows(resp.out.body,
                        selectHistory(occupancy, h2, PoolFilter(resp.rq.pool), now))

\* C14 witness: hours=1 returns some rows, fewer than hours=24 would.
C14_Witness ==
    /\ Answered("/api/history") /\ resp.rq.hours = JsStr(<<"1">>)
    /\ resp.out.body # <<>>
    /\ Len(resp.out.body) <
          Len(selectHistory(occupancy, 24, PoolFilter(resp.rq.pool), now))

\* The cron instants of the UTC day d at which the cleanup is attempted.
CleanupTicks(d) ==
    {k \in 0..(TicksPerDay - 1) : shouldCleanup(Day(d) + k * 300)}

\* C15: of the ticks of a UTC day, fired every five minutes from 00:00, the
\* cleanup is attempted on the one scheduled at 00:00 and on no other,
\* however long the scrape step took and however it ended.
C15_CleanupOncePerDay ==
    /\ \A d \in 100..(100 + MaxDays - 1) : Cardinality(CleanupTicks(d)) = 1
    /\ tick.gate =>
          /\ tick.pc = "cleanup" <=> tick.scheduledTime % SecondsPerDay = 0
          /\ tick.pc # "cleanup" => (tick.pc = "done" /\ tick.cleanup = "skipped")

\* C15 witness: the scrape step of the tick of 00:00 failed after the next
\* cron instant had passed, and the cleanup is attempted.
C15_Witness ==
    /\ tick.gate /\ tick.pc = "cleanup" /\ tick.scrape = "failed"
    /\ tick.scheduledTime % SecondsPerDay = 0
    /\ now > tick.scheduledTime + 300

\* C16: OPTIONS on any path is answered 204 with the CORS headers and no
\* body; any other method but GET, on any path, 405 "Method not allowed";
\* GET on a path the router does not know, 404 "Not found"; and each of
\* these responses carries the CORS headers.
C16_RouterAnswers ==
    resp.out.kind # "none" =>
        /\ resp.rq.method = "OPTIONS" =>
              /\ resp.out.kind = "response" /\ resp.out.status = 204
              /\ resp.out.cors /\ ~resp.out.json /\ resp.out.body = <<>>
        /\ resp.rq.method \notin {"OPTIONS", "GET"} =>
              /\ resp.out.kind = "response" /\ resp.out.status = 405
              /\ resp.out.cors /\ resp.out.json
              /\ resp.out.error = "Method not allowed"
        /\ (resp.rq.method = "GET"
              /\ resp.rq.path \notin {"/api/current", "/api/history", "/api/pools"}) =>
              /\ resp.out.kind = "response" /\ resp.out.status = 404
              /\ resp.out.cors /\ resp.out.json
              /\ resp.out.error = "Not found"

\* C16 witness: a POST to a path the router does not know was answered 405.
C16_Witness ==
    /\ resp.out.kind = "response"
    /\ resp.rq.method = "POST" /\ resp.rq.path = "/api/other"
    /\ resp.out.status = 405 /\ resp.out.cors

\* The array element carries an id, a capacity and a fill.
CarriesFields(e) == e.uid # "" /\ e.maxspace.k # "undefined" /\ e.currentfill.k # "undefined"

\* The call was settled by a message that is not JSON, not an array, or an
\* array with an element that lacks one of the three fields.
SettledByMalformed ==
    \/ ws.promise = "rejected" /\ ws.error = "parse"
    \/ ws.promise = "resolved" /\ \E i \in 1..Len(ws.data) : ~CarriesFields(ws.data[i])

\* C17 as stated: a call settled by a malformed message is rejected, close()
\* has been called, the invocation writes no batch, and no batch that
\* landed was made from an array with a malformed element.
C17_MalformedMessageFails ==
    /\ (ws.open /\ SettledByMalformed) =>
          /\ ws.promise = "rejected"
          /\ ws.closeCalls >= 1
          /\ tick.pc # "batch" /\ tick.appended = 0
    /\ tick.stored # <<>> =>
          \A i \in 1..Len(tick.stored[1].data) : CarriesFields(tick.stored[1].data[i])

\* C18 as stated: once the promise of a call that passed the upgrade is
\* settled, by records, a parse error, the timeout or a channel error,
\* close() has been called on the socket.
C18_ClosedWhenSettled ==
    (ws.open /\ ws.promise # "pending") => ws.closeCalls >= 1

\* C19: every stored row has a level of 0, 1, 2, 3 or 4, and the level is 0
\* exactly when the row's capacity is <= 0 or its fill is < 0, whatever the
\* upstream fields coerce to.
C19_StoredLevelInRange ==
    \A r \in Rows(occupancy) :
        /\ r.occupancy_level \in {0, 1, 2, 3, 4}
        /\ r.occupancy_level = 0 <=> (r.max_capacity <= 0 \/ r.current_fill < 0)

\* C19 witness: a row whose fill exceeds its capacity is stored with level 4.
C19_Witness ==
    /\ cRecord.written = "ok"
    /\ \E r \in Rows(occupancy) :
          /\ r.max_capacity > 0 /\ r.current_fill > 2 * r.max_capacity
          /\ r.occupancy_level = 4

\* C20 as stated: no stored row has a negative current_fill.
C20_StoredFillNotNegative ==
    \A r \in Rows(occupancy) : r.current_fill >= 0

\* C21 as stated: no two records that /api/current returns have the same
\* pool_id.
C21_CurrentOnePerFacility ==
    Answered("/api/current") =>
        \A i, j \in 1..Len(resp.out.body) :
            resp.out.body[i].pool_id = resp.out.body[j].pool_id => i = j

\* C22: once the promise of a scrape call is settled, by the first message,
\* the timeout or the error event, no later event changes whether it is
\* resolved or rejected, the records or the error it settled with; and an
\* invocation writes at most one batch.
C22_SingleOutcome ==
    /\ [][(ws.open /\ ws'.open /\ ws.promise # "pending") =>
            /\ ws'.promise = ws.promise
            /\ ws'.value = ws.value
            /\ ws'.error = ws.error]_vars
    /\ [](tick.appended <= 1)
    /\ [][tick'.appended > tick.appended => tick.pc = "batch"]_vars

\* C22 witness: the call resolved with records and wrote its batch; a second
\* message and the error event arrived afterwards.
C22_Witness ==
    /\ ws.open /\ ws.promise = "resolved" /\ Len(ws.value) > 0
    /\ ws.msgs = 2 /\ ws.errored
    /\ tick.appended = 1

\* C23 as stated: ws.send('all') is called at most once per scrape call,
\* exactly once when the 500 ms timer has fired, and never after ws.close()
\* has been called.
C23_SendOnceNeverAfterClose ==
    ws.open =>
        /\ ws.sends + ws.sendsClosed <= 1
        /\ ~ws.sendArmed => ws.sends + ws.sendsClosed = 1
        /\ ws.sendsClosed = 0

\* The call resolved from an array that lists no facility of the catalog.
ResolvedWithoutTracked ==
    /\ ws.open /\ ws.promise = "resolved"
    /\ \A i \in 1..Len(ws.data) :
          ws.data[i].uid \notin {"SSD-4", "SSD-7", "SSD-10", "SSD-6", "fb012", "BADI-1"}

\* C24: when the message of a scrape lists no tracked facility, scrapeAndStore
\* returns without writing and leaves the table as it was; the table only
\* changes in a batch or a cleanup; so after an invocation that wrote nothing
\* and skipped the cleanup, /api/current returns the latest snapshot stored
\* before it, and an empty array only when the table is empty.
C24_EmptyScrapeKeepsSnapshot ==
    /\ [][(tick.pc = "await" /\ tick'.pc # "await" /\ ResolvedWithoutTracked) =>
            /\ occupancy' = occupancy
            /\ tick'.pc # "batch"
            /\ tick'.scrape = "ok" /\ tick'.appended = 0]_vars
    /\ [][occupancy' # occupancy => tick.pc \in {"batch", "cleanup"}]_vars
    /\ []((Answered("/api/current") /\ tick.pc = "done" /\ tick.scrape = "ok"
              /\ tick.appended = 0 /\ tick.cleanup = "skipped" /\ occupancy # <<>>) =>
            /\ resp.out.body # <<>>
            /\ \A r \in Rows(resp.out.body) :
                  /\ InstantOf(r.timestamp) < tick.scheduledTime
                  /\ InstantOf(r.timestamp) = LatestInstant(occupancy))

\* C24 witness: the table holds a snapshot, the invocation that ran last got
\* an array without tracked facilities and wrote nothing, and /api/current
\* returned the snapshot.
C24_Witness ==
    /\ Answered("/api/current")
    /\ tick.pc = "done" /\ tick.scrape = "ok" /\ tick.appended = 0
    /\ tick.cleanup = "skipped"
    /\ Len(occupancy) = 2 /\ Len(resp.out.body) = 2

====
